---- MODULE Spec2Model ----
(***************************************************************************)
(* Job control of the cs33 shell (sh.c, lib_checks.c, parsing.c, jobs.h).  *)
(*                                                                         *)
(* The shell is one sequential process (variable pc); its children are     *)
(* separate OS processes that advance and change state on their own.  The  *)
(* kernel keeps, per child, the last wait status not yet collected by      *)
(* waitpid (field pend).  The registry my_jobs and the counter next_job    *)
(* are the globals of sh.c.  run_prog takes the background flag redir[3]   *)
(* as an input: what parse() makes of the command line is modelled         *)
(* separately from the process control.                                    *)
(***************************************************************************)
EXTENDS Integers, Sequences, FiniteSets, TLC

\* ------------------------------------------------------------- bounds
\* number of children the shell may fork in one run
MaxKids == 2
\* largest value of next_job at which a command that can register a job is
\* still accepted
MaxJob == 2
\* largest number of tokens in a command line given to parse
MaxTok == 5
\* largest argc of a builtin command line
MaxArgc == 4

\* ------------------------------------------------------------- process ids
PidOf(i) == 100 + i
ShellPgid == PidOf(0)
Pids == {PidOf(i) : i \in 1..MaxKids}

\* ------------------------------------------------------------- wait status
\* raw status words as waitpid stores them
NoStatus == 0 - 1
ExitedStatus(code) == code * 256
SignaledStatus(sig) == sig
StoppedStatus(sig) == sig * 256 + 127
ContinuedStatus == 65535

ExitCodes == {0, 1}
\* SIGINT, SIGKILL
TermSigs == {2, 9}
\* SIGSTOP, SIGTSTP
StopSigs == {19, 20}
\* the signals change_def_handlers sets: SIGINT, SIGTSTP (SIGTTOU is not sent here)
HandledSigs == {2, 20}

WIFEXITED(status) == status % 128 = 0
WEXITSTATUS(status) == (status \div 256) % 256
WIFSIGNALED(status) == (status % 128) \notin {0, 127}
WTERMSIG(status) == status % 128
WIFSTOPPED(status) == status % 256 = 127
WSTOPSIG(status) == (status \div 256) % 256
WIFCONTINUED(status) == status = 65535

\* ------------------------------------------------------------- job registry
RUNNING == "Running"
STOPPED == "Stopped"

Job(jid, pid, state) == [jid |-> jid, pid |-> pid, state |-> state]

init_job_list == << >>

add_job(list, jid, pid, state) == Append(list, Job(jid, pid, state))

\* index of the first entry for process group pid, 0 when there is none
FirstOfPid(list, pid) ==
    IF \E i \in 1..Len(list) : list[i].pid = pid
    THEN CHOOSE i \in 1..Len(list) :
            /\ list[i].pid = pid
            /\ \A j \in 1..(i - 1) : list[j].pid # pid
    ELSE 0

\* index of the first entry with job id jid, 0 when there is none
FirstOfJid(list, jid) ==
    IF \E i \in 1..Len(list) : list[i].jid = jid
    THEN CHOOSE i \in 1..Len(list) :
            /\ list[i].jid = jid
            /\ \A j \in 1..(i - 1) : list[j].jid # jid
    ELSE 0

remove_job_pid(list, pid) ==
    LET k == FirstOfPid(list, pid)
    IN  IF k = 0 THEN list
        ELSE [i \in 1..(Len(list) - 1) |-> IF i < k THEN list[i] ELSE list[i + 1]]

update_job_pid(list, pid, state) ==
    LET k == FirstOfPid(list, pid)
    IN  IF k = 0 THEN list ELSE [list EXCEPT ![k].state = state]

get_job_jid(list, pid) ==
    LET k == FirstOfPid(list, pid)
    IN  IF k = 0 THEN 0 - 1 ELSE list[k].jid

\* a lookup that answers with the first job when jid is not there
get_job_pid_first(list, jid) ==
    LET k == FirstOfJid(list, jid)
    IN  IF k # 0 THEN list[k].pid
        ELSE IF list = << >> THEN 0 - 1 ELSE list[1].pid

get_job_pid(list, jid) ==
    LET k == FirstOfJid(list, jid)
    IN  IF k = 0 THEN 0 - 1 ELSE list[k].pid

\* a cleanup that leaves the list as it is
cleanup_job_list_keeps(list) == list

cleanup_job_list(list) == << >>

\* ------------------------------------------------------------- output lines
Line(kind, jid, pid, n) == [kind |-> kind, jid |-> jid, pid |-> pid, n |-> n]

jobs(list) ==
    [i \in 1..Len(list) |-> Line(list[i].state, list[i].jid, list[i].pid, 0)]


\* ------------------------------------------------------------- sh.c helpers
\* handle_signals without the next_job++ after add_job
handle_signals_noincr(list, nj, status, pgid) ==
    LET found == get_job_pid(list, pgid)
        sig == IF WIFSIGNALED(status) THEN WTERMSIG(status)
               ELSE IF WIFSTOPPED(status) THEN WSTOPSIG(status)
               ELSE 0
        act == IF WIFSIGNALED(status) THEN "terminated by signal"
               ELSE "suspended by signal"
        isNew == found < 0
        job == IF (WIFSIGNALED(status) \/ WIFSTOPPED(status)) /\ isNew
               THEN nj ELSE found
        adds == ~WIFSIGNALED(status) /\ WIFSTOPPED(status) /\ isNew
    IN  [jobs |-> IF adds THEN add_job(list, nj, pgid, STOPPED) ELSE list,
         next |-> nj,
         out  |-> IF sig # 0 THEN << Line(act, job, pgid, sig) >> ELSE << >>]

\* handle_signals registering the job in the terminated branch as well
handle_signals_addsterm(list, nj, status, pgid) ==
    LET found == get_job_pid(list, pgid)
        sig == IF WIFSIGNALED(status) THEN WTERMSIG(status)
               ELSE IF WIFSTOPPED(status) THEN WSTOPSIG(status)
               ELSE 0
        act == IF WIFSIGNALED(status) THEN "terminated by signal"
               ELSE "suspended by signal"
        isNew == found < 0
        job == IF (WIFSIGNALED(status) \/ WIFSTOPPED(status)) /\ isNew
               THEN nj ELSE found
        adds == (WIFSIGNALED(status) \/ WIFSTOPPED(status)) /\ isNew
    IN  [jobs |-> IF adds THEN add_job(list, nj, pgid, STOPPED) ELSE list,
         next |-> IF adds THEN nj + 1 ELSE nj,
         out  |-> IF sig # 0 THEN << Line(act, job, pgid, sig) >> ELSE << >>]

\* handle_signals(status, pgid, cmd) on the globals (list, nj): the new
\* registry, the new counter and the lines written
handle_signals(list, nj, status, pgid) ==
    LET found == get_job_pid(list, pgid)
        sig == IF WIFSIGNALED(status) THEN WTERMSIG(status)
               ELSE IF WIFSTOPPED(status) THEN WSTOPSIG(status)
               ELSE 0
        act == IF WIFSIGNALED(status) THEN "terminated by signal"
               ELSE "suspended by signal"
        isNew == found < 0
        job == IF (WIFSIGNALED(status) \/ WIFSTOPPED(status)) /\ isNew
               THEN nj ELSE found
        adds == ~WIFSIGNALED(status) /\ WIFSTOPPED(status) /\ isNew
    IN  [jobs |-> IF adds THEN add_job(list, nj, pgid, STOPPED) ELSE list,
         next |-> IF adds THEN nj + 1 ELSE nj,
         out  |-> IF sig # 0 THEN << Line(act, job, pgid, sig) >> ELSE << >>]

\* reap without "code = 1" in the exited branch: exit status 0 prints nothing
reap_nocode(list, status, pgid) ==
    LET job == get_job_jid(list, pgid)
    IN  IF WIFSIGNALED(status)
        THEN [jobs |-> remove_job_pid(list, pgid),
              out  |-> << Line("terminated by signal", job, pgid, WTERMSIG(status)) >>]
        ELSE IF WIFSTOPPED(status)
        THEN [jobs |-> update_job_pid(list, pgid, STOPPED),
              out  |-> << Line("suspended by signal", job, pgid, WSTOPSIG(status)) >>]
        ELSE IF WIFCONTINUED(status)
        THEN [jobs |-> update_job_pid(list, pgid, RUNNING),
              out  |-> << Line("resumed", job, pgid, 0) >>]
        ELSE IF WIFEXITED(status)
        THEN [jobs |-> remove_job_pid(list, pgid),
              out  |-> IF WEXITSTATUS(status) # 0
                       THEN << Line("terminated with exit status", job, pgid, WEXITSTATUS(status)) >>
                       ELSE << >>]
        ELSE [jobs |-> list, out |-> << >>]

\* reap with the stopped branch removing the job, as the terminated branches do
reap_stopremoves(list, status, pgid) ==
    LET job == get_job_jid(list, pgid)
    IN  IF WIFSIGNALED(status)
        THEN [jobs |-> remove_job_pid(list, pgid),
              out  |-> << Line("terminated by signal", job, pgid, WTERMSIG(status)) >>]
        ELSE IF WIFSTOPPED(status)
        THEN [jobs |-> remove_job_pid(list, pgid),
              out  |-> << Line("suspended by signal", job, pgid, WSTOPSIG(status)) >>]
        ELSE IF WIFCONTINUED(status)
        THEN [jobs |-> update_job_pid(list, pgid, RUNNING),
              out  |-> << Line("resumed", job, pgid, 0) >>]
        ELSE IF WIFEXITED(status)
        THEN [jobs |-> remove_job_pid(list, pgid),
              out  |-> << Line("terminated with exit status", job, pgid, WEXITSTATUS(status)) >>]
        ELSE [jobs |-> list, out |-> << >>]

\* reap(status, pgid) on the global list: the new registry and the lines written
reap(list, status, pgid) ==
    LET job == get_job_jid(list, pgid)
    IN  IF WIFSIGNALED(status)
        THEN [jobs |-> remove_job_pid(list, pgid),
              out  |-> IF WTERMSIG(status) # 0
                       THEN << Line("terminated by signal", job, pgid, WTERMSIG(status)) >>
                       ELSE << >>]
        ELSE IF WIFSTOPPED(status)
        THEN [jobs |-> update_job_pid(list, pgid, STOPPED),
              out  |-> IF WSTOPSIG(status) # 0
                       THEN << Line("suspended by signal", job, pgid, WSTOPSIG(status)) >>
                       ELSE << >>]
        ELSE IF WIFCONTINUED(status)
        THEN [jobs |-> update_job_pid(list, pgid, RUNNING),
              out  |-> << Line("resumed", job, pgid, 0) >>]
        ELSE IF WIFEXITED(status)
        THEN [jobs |-> remove_job_pid(list, pgid),
              out  |-> << Line("terminated with exit status", job, pgid, WEXITSTATUS(status)) >>]
        ELSE [jobs |-> list, out |-> << >>]

\* ------------------------------------------------------------- state
VARIABLES
    pc,          \* where the shell is: "reap", "read", "wait", "exited"
    kids,        \* the children: [Pids -> [st, phase, pend]]
    tty,         \* foreground process group of the controlling terminal
    my_jobs,     \* the registry
    next_job,    \* the job-id counter
    waitPid,     \* the pid the blocking waitpid was called for (0: none)
    waitKind,    \* "run" (run_prog) or "fg" (the fg builtin) or "none"
    exit_status, \* status the shell exited with (-1 while it runs)
    op,          \* which code took the step just taken ("env": not the shell)
    out,         \* the lines the step just taken wrote
    assigned,    \* history: <<jid, pgid>> pairs ever passed to add_job
    shown,       \* history: <<jid, pgid>> pairs ever written in a line "[jid] (pgid) ..."
    shellCont,   \* history: the children whose pending continuation fg or bg caused
    cmd,         \* one command line on its way through parse and exec_builtins
    child,       \* one forked child on its way through run_prog's child branch
    handlers     \* the shell's dispositions of SIGINT, SIGTSTP and SIGTTOU

vars == << pc, kids, tty, my_jobs, next_job, waitPid, waitKind, exit_status,
           op, out, assigned, shown, shellCont, cmd, child, handlers >>

hist == << assigned, shown >>

\* cmd and child follow one command line and one child step by step; the
\* actions of the job control take a command and a child setup as one step each
\* and leave them alone
aux == << cmd, child, handlers >>
NoCmd == [stage |-> "none"]
NoChild == [pos |-> "none"]

\* the signals whose disposition the shell changes, in the order in which
\* change_def_handlers sets them
SigOrder == << "SIGINT", "SIGTSTP", "SIGTTOU" >>
Sigs == {SigOrder[k] : k \in 1..Len(SigOrder)}
SIG_DFL == "SIG_DFL"
SIG_IGN == "SIG_IGN"
\* the dispositions once change_def_handlers(SIG_IGN) has returned
Ignored == [s \in Sigs |-> SIG_IGN]

\* the <<jid, pgid>> pairs of the lines that show a job id with a process group
Pairs(lines) == {<< lines[i].jid, lines[i].pid >> : i \in {n \in 1..Len(lines) : lines[n].pid # 0}}

\* Where a living child is in run_prog's child branch.  "setup_fg"/"setup_bg":
\* forked with bg = 0 / bg # 0, nothing done yet; the whole setup (setpgid,
\* tcsetpgrp when bg = 0, change_def_handlers(SIG_DFL), redirections, execv) is
\* one step of the child, since the shell sees nothing of it but the terminal
\* and the exit status.  "prog": the program runs.  A child that is not alive
\* has phase "none".
FirstPhase(bg) == IF bg # 0 THEN "setup_bg" ELSE "setup_fg"

Unborn == [st |-> "unborn", phase |-> "none", pend |-> NoStatus]
Gone == [st |-> "reaped", phase |-> "none", pend |-> NoStatus]

Init ==
    /\ pc = "reap"
    /\ kids = [p \in Pids |-> Unborn]
    /\ tty = ShellPgid
    /\ my_jobs = init_job_list
    /\ next_job = 1
    /\ waitPid = 0
    /\ waitKind = "none"
    /\ exit_status = 0 - 1
    /\ op = "env"
    /\ out = << >>
    /\ assigned = {}
    /\ shown = {}
    /\ shellCont = {}
    /\ cmd = NoCmd
    /\ child = NoChild
    /\ handlers = Ignored


\* ------------------------------------------------------------- the children
Born(p) == kids[p].st \in {"alive", "stopped", "zombie"}

\* SIGINT and SIGTSTP are ignored (inherited from the shell) until the child
\* has run change_def_handlers(SIG_DFL)
SigDefault(k) == k.phase = "prog"

Dies(k, status) == [st |-> "zombie", phase |-> "none", pend |-> status]

\* the children of shellCont and new whose continuation is still pending after
\* the step
KeepCont(new) ==
    {p \in shellCont \cup new : kids'[p].st = "alive" /\ kids'[p].pend = ContinuedStatus}

EnvStep ==
    /\ pc # "exited"
    /\ op' = "env"
    /\ out' = << >>
    /\ shellCont' = KeepCont({})
    /\ UNCHANGED aux

\* the child takes the terminal whatever bg is
ChildTcsetpgrp_always(p, phase, t) == p

\* the terminal after the child p has passed "if (!bg) checked_setpgrp(pid)"
ChildTcsetpgrp(p, phase, t) == IF phase = "setup_fg" THEN p ELSE t

\* the setup of the forked child in run_prog up to execv; or a failure in it and
\* exit(1), before or after the child has passed the tcsetpgrp
ChildSetup(p) ==
    /\ kids[p].st = "alive"
    /\ kids[p].phase # "prog"
    /\ \/ /\ kids' = [kids EXCEPT ![p].phase = "prog"]
          /\ tty' = ChildTcsetpgrp(p, kids[p].phase, tty)
       \/ /\ kids' = [kids EXCEPT ![p] = Dies(@, ExitedStatus(1))]
          /\ tty' \in {tty, ChildTcsetpgrp(p, kids[p].phase, tty)}
    /\ EnvStep
    /\ UNCHANGED << pc, my_jobs, next_job, waitPid, waitKind, exit_status, hist >>

\* the executed program ends by itself
ChildExit(p) ==
    /\ kids[p].st = "alive"
    /\ kids[p].phase = "prog"
    /\ \E code \in ExitCodes : kids' = [kids EXCEPT ![p] = Dies(@, ExitedStatus(code))]
    /\ EnvStep
    /\ UNCHANGED << pc, tty, my_jobs, next_job, waitPid, waitKind, exit_status, hist >>

\* a terminating signal reaches the child
ChildKilled(p) ==
    /\ \E sig \in TermSigs :
          /\ IF sig \in HandledSigs
             THEN kids[p].st = "alive" /\ SigDefault(kids[p])
             ELSE kids[p].st \in {"alive", "stopped"}
          /\ kids' = [kids EXCEPT ![p] = Dies(@, SignaledStatus(sig))]
    /\ EnvStep
    /\ UNCHANGED << pc, tty, my_jobs, next_job, waitPid, waitKind, exit_status, hist >>

\* a stop signal reaches the child
ChildStopped(p) ==
    /\ kids[p].st = "alive"
    /\ \E sig \in StopSigs :
          /\ sig \in HandledSigs => SigDefault(kids[p])
          /\ kids' = [kids EXCEPT ![p].st = "stopped", ![p].pend = StoppedStatus(sig)]
    /\ EnvStep
    /\ UNCHANGED << pc, tty, my_jobs, next_job, waitPid, waitKind, exit_status, hist >>

\* what SIGCONT does to a child
Sigcont(k) ==
    IF k.st = "stopped" THEN [k EXCEPT !.st = "alive", !.pend = ContinuedStatus] ELSE k

\* SIGCONT sent by somebody else than the shell
ChildContinued(p) ==
    /\ kids[p].st = "stopped"
    /\ kids' = [kids EXCEPT ![p] = Sigcont(@)]
    /\ EnvStep
    /\ UNCHANGED << pc, tty, my_jobs, next_job, waitPid, waitKind, exit_status, hist >>

\* ------------------------------------------------------------- the shell
\* a waitpid that leaves the status it returned pending
Collected_keeps(k) == k

\* waitpid has returned status for p: the kernel forgets it, a zombie is gone
Collected(k) == IF k.st = "zombie" THEN Gone ELSE [k EXCEPT !.pend = NoStatus]

\* main loop: waitpid(-1, WNOHANG | WUNTRACED | WCONTINUED) returned p > 0
ReapOne(p) ==
    /\ UNCHANGED aux
    /\ pc = "reap"
    /\ Born(p)
    /\ kids[p].pend # NoStatus
    /\ LET r == reap(my_jobs, kids[p].pend, p)
       IN  /\ my_jobs' = r.jobs
           /\ out' = r.out
    /\ kids' = [kids EXCEPT ![p] = Collected(@)]
    /\ op' = "reap"
    /\ shown' = shown \cup Pairs(out')
    /\ shellCont' = KeepCont({})
    /\ UNCHANGED << pc, tty, next_job, waitPid, waitKind, exit_status, assigned >>

\* the children with a status change that no waitpid has returned yet
Pending(ks) == {p \in Pids : ks[p].st \in {"alive", "stopped", "zombie"} /\ ks[p].pend # NoStatus}

\* the orders in which waitpid(-1, ...) may hand out the pending children S
Orders(S) ==
    LET n == Cardinality(S)
    IN  {o \in [1..n -> S] : \A i, j \in 1..n : o[i] = o[j] => i = j}

\* the whole drain loop at the top of main run on (list, ks) while no child
\* changes state, waitpid returning the pending children in the order given:
\* the new registry, the children as the kernel then has them, the lines written
RECURSIVE DrainIn(_, _, _)
DrainIn(order, list, ks) ==
    IF order = << >>
    THEN [jobs |-> list, kids |-> ks, out |-> << >>]
    ELSE LET p == Head(order)
         IN  IF ks[p].st \in {"alive", "stopped", "zombie"} /\ ks[p].pend # NoStatus
             THEN LET r == reap(list, ks[p].pend, p)
                      rest == DrainIn(Tail(order), r.jobs, [ks EXCEPT ![p] = Collected(@)])
                  IN  [jobs |-> rest.jobs, kids |-> rest.kids, out |-> r.out \o rest.out]
             ELSE DrainIn(Tail(order), list, ks)

\* the drain loop left while a status is still pending
ReapDone_early ==
    /\ UNCHANGED aux
    /\ pc = "reap"
    /\ pc' = "read"
    /\ op' = "prompt"
    /\ out' = << >>
    /\ UNCHANGED << kids, tty, my_jobs, next_job, waitPid, waitKind, exit_status, hist, shellCont >>

\* main loop: waitpid(-1, WNOHANG ...) returned 0 or -1; prompt, then read
ReapDone ==
    /\ UNCHANGED aux
    /\ pc = "reap"
    /\ \A p \in Pids : Born(p) => kids[p].pend = NoStatus
    /\ pc' = "read"
    /\ op' = "prompt"
    /\ out' = << >>
    /\ UNCHANGED << kids, tty, my_jobs, next_job, waitPid, waitKind, exit_status, hist, shellCont >>

FreePid == CHOOSE p \in Pids : kids[p].st = "unborn" /\ \A q \in Pids : q < p => kids[q].st # "unborn"

\* run_prog's background branch without the next_job++
RunProgBg_noincr(list, nj, pid) ==
    LET added == add_job(list, nj, pid, RUNNING)
    IN  [jobs |-> added,
         next |-> nj,
         out  |-> << Line("launch", get_job_jid(added, pid), pid, 0) >>]

\* parent side of run_prog for a background job: add_job, next_job++ and the
\* launch line
RunProgBg(list, nj, pid) ==
    LET added == add_job(list, nj, pid, RUNNING)
    IN  [jobs |-> added,
         next |-> nj + 1,
         out  |-> << Line("launch", get_job_jid(added, pid), pid, 0) >>]

\* run_prog with redir[3] = bg, up to the blocking waitpid (foreground) or
\* to its return (background)
RunProg(bg) ==
    /\ UNCHANGED aux
    /\ pc = "read"
    /\ \E p \in Pids : kids[p].st = "unborn"
    /\ next_job <= MaxJob
    /\ LET pid == FreePid
       IN  /\ kids' = [kids EXCEPT ![pid] = [st |-> "alive", phase |-> FirstPhase(bg), pend |-> NoStatus]]
           /\ IF bg # 0
              THEN /\ my_jobs' = RunProgBg(my_jobs, next_job, pid).jobs
                   /\ next_job' = RunProgBg(my_jobs, next_job, pid).next
                   /\ out' = RunProgBg(my_jobs, next_job, pid).out
                   /\ tty' = ShellPgid
                   /\ pc' = "reap"
                   /\ op' = "run_prog"
                   /\ assigned' = assigned \cup {<< next_job, pid >>}
                   /\ shown' = shown \cup Pairs(out')
                   /\ UNCHANGED << waitPid, waitKind >>
              ELSE /\ pc' = "wait"
                   /\ waitPid' = pid
                   /\ waitKind' = "run"
                   /\ op' = "run_prog"
                   /\ out' = << >>
                   /\ UNCHANGED << my_jobs, next_job, tty, hist >>
    /\ UNCHANGED << exit_status, shellCont >>

\* a wait that does not block (WNOHANG)
WaitReady_nohang(status) == TRUE

\* the blocking waitpid(pid, &status, WUNTRACED) returns once the child has an
\* uncollected termination or stop; a continuation is not reported to it
WaitReady(status) == status # NoStatus /\ ~WIFCONTINUED(status)

\* checked_waitpid(pid, &status, WUNTRACED) returns, then handle_signals; run_prog
\* then gives the terminal back to the shell's group
WaitReturn ==
    /\ UNCHANGED aux
    /\ pc = "wait"
    /\ Born(waitPid)
    /\ LET status == kids[waitPid].pend
       IN  /\ WaitReady(status)
           /\ LET h == handle_signals(my_jobs, next_job, status, waitPid)
              IN  /\ my_jobs' = h.jobs
                  /\ next_job' = h.next
                  /\ out' = h.out
                  /\ assigned' = IF h.next # next_job
                                 THEN assigned \cup {<< next_job, waitPid >>}
                                 ELSE assigned
    /\ kids' = [kids EXCEPT ![waitPid] = Collected(@)]
    /\ op' = "handle_signals"
    /\ shown' = shown \cup Pairs(out')
    /\ shellCont' = KeepCont({})
    /\ tty' = IF waitKind = "run" THEN ShellPgid ELSE tty
    /\ pc' = "reap"
    /\ waitPid' = 0
    /\ waitKind' = "none"
    /\ UNCHANGED exit_status

\* the jobs builtin
Jobs ==
    /\ UNCHANGED aux
    /\ pc = "read"
    /\ out' = jobs(my_jobs)
    /\ op' = "jobs"
    /\ pc' = "reap"
    /\ shown' = shown \cup Pairs(out')
    /\ UNCHANGED << kids, tty, my_jobs, next_job, waitPid, waitKind, exit_status, assigned, shellCont >>

\* the fg builtin with a well-formed argument %jid, up to the blocking waitpid;
\* waitpid fails at once (ECHILD) when pid is no child any more
Fg(jid) ==
    /\ UNCHANGED aux
    /\ pc = "read"
    /\ op' = "fg"
    /\ LET pid == get_job_pid(my_jobs, jid)
       IN  IF pid < 0
           THEN /\ out' = << Line("job not found", jid, 0, 0) >>
                /\ pc' = "reap"
                /\ UNCHANGED << kids, my_jobs, waitPid, waitKind, exit_status, shellCont >>
           ELSE /\ next_job <= MaxJob
                /\ kids' = [kids EXCEPT ![pid] = Sigcont(@)]
                /\ shellCont' = KeepCont({q \in {pid} : kids[q].st = "stopped"})
                /\ out' = << >>
                /\ IF Born(pid)
                   THEN /\ my_jobs' = update_job_pid(my_jobs, pid, RUNNING)
                        /\ pc' = "wait"
                        /\ waitPid' = pid
                        /\ waitKind' = "fg"
                        /\ UNCHANGED exit_status
                   ELSE /\ my_jobs' = cleanup_job_list(update_job_pid(my_jobs, pid, RUNNING))
                        /\ pc' = "exited"
                        /\ exit_status' = 1
                        /\ UNCHANGED << waitPid, waitKind >>
    /\ UNCHANGED << tty, next_job, hist >>

\* the bg builtin with a well-formed argument %jid
Bg(jid) ==
    /\ UNCHANGED aux
    /\ pc = "read"
    /\ op' = "bg"
    /\ LET pid == get_job_pid(my_jobs, jid)
       IN  IF pid < 0
           THEN /\ out' = << Line("job not found", jid, 0, 0) >>
                /\ UNCHANGED << kids, my_jobs, shellCont >>
           ELSE /\ kids' = [kids EXCEPT ![pid] = Sigcont(@)]
                /\ shellCont' = KeepCont({q \in {pid} : kids[q].st = "stopped"})
                /\ my_jobs' = update_job_pid(my_jobs, pid, RUNNING)
                /\ out' = << >>
    /\ pc' = "reap"
    /\ UNCHANGED << tty, next_job, waitPid, waitKind, exit_status, hist >>

\* the exit builtin, or end of input
Exit ==
    /\ UNCHANGED aux
    /\ pc = "read"
    /\ my_jobs' = cleanup_job_list(my_jobs)
    /\ pc' = "exited"
    /\ exit_status' = 0
    /\ op' = "exit"
    /\ out' = << >>
    /\ UNCHANGED << kids, tty, next_job, waitPid, waitKind, hist, shellCont >>

JidArgs == 0..MaxJob

Next ==
    \/ \E p \in Pids : ChildSetup(p)
    \/ \E p \in Pids : ChildExit(p)
    \/ \E p \in Pids : ChildKilled(p)
    \/ \E p \in Pids : ChildStopped(p)
    \/ \E p \in Pids : ChildContinued(p)
    \/ \E p \in Pids : ReapOne(p)
    \/ ReapDone
    \/ \E bg \in {0, 1} : RunProg(bg)
    \/ WaitReturn
    \/ Jobs
    \/ \E jid \in JidArgs : Fg(jid)
    \/ \E jid \in JidArgs : Bg(jid)
    \/ Exit

Spec == Init /\ [][Next]_vars

\* ------------------------------------------------------------- fatal failures
\* The checked_* wrappers of lib_checks.c and the error branches of main and
\* run_prog: the failing call is followed by cleanup_job_list(my_jobs) and
\* exit(1).  What the handler did before the failing call stays done.
Fatal(list) ==
    /\ my_jobs' = cleanup_job_list(list)
    /\ pc' = "exited"
    /\ exit_status' = 1

\* main: checked_signal fails in change_def_handlers(SIG_IGN) at the top of the
\* loop
SignalFails ==
    /\ UNCHANGED aux
    /\ pc = "reap"
    /\ Fatal(my_jobs)
    /\ op' = "change_def_handlers"
    /\ out' = << >>
    /\ UNCHANGED << kids, tty, next_job, waitPid, waitKind, hist, shellCont >>

\* main: reap has updated the registry and its checked_stdwrite fails
ReapWriteFails(p) ==
    /\ UNCHANGED aux
    /\ pc = "reap"
    /\ p \in Pending(kids)
    /\ Fatal(reap(my_jobs, kids[p].pend, p).jobs)
    /\ kids' = [kids EXCEPT ![p] = Collected(@)]
    /\ op' = "reap"
    /\ out' = << >>
    /\ shellCont' = KeepCont({})
    /\ UNCHANGED << tty, next_job, waitPid, waitKind, hist >>

\* main: the drain is over and the checked_stdwrite of the prompt fails
PromptFails ==
    /\ UNCHANGED aux
    /\ pc = "reap"
    /\ Pending(kids) = {}
    /\ Fatal(my_jobs)
    /\ op' = "prompt"
    /\ out' = << >>
    /\ UNCHANGED << kids, tty, next_job, waitPid, waitKind, hist, shellCont >>

\* main: read returns a negative value
ReadFails ==
    /\ UNCHANGED aux
    /\ pc = "read"
    /\ Fatal(my_jobs)
    /\ op' = "read"
    /\ out' = << >>
    /\ UNCHANGED << kids, tty, next_job, waitPid, waitKind, hist, shellCont >>

\* run_prog, background: the child is forked and the job added; then the
\* checked_stdwrite of the launch line fails (written = 0), or the line is
\* written and getpgrp or checked_setpgrp fails (written = 1)
RunProgBgFails(written) ==
    /\ UNCHANGED aux
    /\ pc = "read"
    /\ \E p \in Pids : kids[p].st = "unborn"
    /\ next_job <= MaxJob
    /\ LET pid == FreePid
           r == RunProgBg(my_jobs, next_job, pid)
       IN  /\ kids' = [kids EXCEPT ![pid] = [st |-> "alive", phase |-> FirstPhase(1), pend |-> NoStatus]]
           /\ Fatal(r.jobs)
           /\ next_job' = r.next
           /\ out' = IF written = 1 THEN r.out ELSE << >>
           /\ assigned' = assigned \cup {<< next_job, pid >>}
           /\ shown' = shown \cup Pairs(out')
    /\ op' = "run_prog"
    /\ UNCHANGED << tty, waitPid, waitKind, shellCont >>

\* run_prog or fg after the blocking wait: handle_signals has updated the
\* registry and its checked_stdwrite fails (written = 0); or, in run_prog, the
\* line is written and getpgrp or checked_setpgrp fails (written = 1)
WaitReturnFails(written) ==
    /\ UNCHANGED aux
    /\ pc = "wait"
    /\ Born(waitPid)
    /\ LET status == kids[waitPid].pend
           h == handle_signals(my_jobs, next_job, status, waitPid)
       IN  /\ WaitReady(status)
           /\ IF written = 1 THEN waitKind = "run" ELSE h.out # << >>
           /\ Fatal(h.jobs)
           /\ next_job' = h.next
           /\ out' = IF written = 1 THEN h.out ELSE << >>
           /\ assigned' = IF h.next # next_job
                          THEN assigned \cup {<< next_job, waitPid >>}
                          ELSE assigned
    /\ kids' = [kids EXCEPT ![waitPid] = Collected(@)]
    /\ op' = "handle_signals"
    /\ shown' = shown \cup Pairs(out')
    /\ shellCont' = KeepCont({})
    /\ UNCHANGED << tty, waitPid, waitKind >>

NextFatal ==
    \/ Next
    \/ SignalFails
    \/ \E p \in Pids : ReapWriteFails(p)
    \/ PromptFails
    \/ ReadFails
    \/ \E written \in {0, 1} : RunProgBgFails(written)
    \/ \E written \in {0, 1} : WaitReturnFails(written)

\* the shell with the failures of its system calls
SpecFatal == Init /\ [][NextFatal]_vars

\* The shell started by a process that already had a child (execve keeps the
\* children of the process): waitpid(-1, ...) in main also returns the status
\* changes of that child, which run_prog never registered.
Inherited == [st |-> "alive", phase |-> "prog", pend |-> NoStatus]

InitInherited ==
    /\ pc = "reap"
    /\ kids = [p \in Pids |-> IF p = PidOf(1) THEN Inherited ELSE Unborn]
    /\ tty = ShellPgid
    /\ my_jobs = init_job_list
    /\ next_job = 1
    /\ waitPid = 0
    /\ waitKind = "none"
    /\ exit_status = 0 - 1
    /\ op = "env"
    /\ out = << >>
    /\ assigned = {}
    /\ shown = {}
    /\ shellCont = {}
    /\ cmd = NoCmd
    /\ child = NoChild
    /\ handlers = Ignored

SpecInherited == InitInherited /\ [][Next]_vars

\* one call of waitpid(-1, WNOHANG ...) in the loop at the top of main, with what
\* follows it
Drain == ReapDone \/ \E p \in Pids : ReapOne(p)

\* the shell is a running process: a drain that can take its next step does
SpecDrain == Spec /\ WF_vars(Drain)


\* ------------------------------------------------------------- parsing.c
\* the variables of the job control
job == << pc, kids, tty, my_jobs, next_job, waitPid, waitKind, exit_status,
          op, out, assigned, shown, shellCont >>

\* A command line is the sequence of its tokens, as strtok(buffer, "\t ") and
\* strtok(NULL, "\t ") hand them out; NULL is what strtok returns at the end and
\* what the arrays are filled with by memset.
NULL == ""
Words == {"<", ">", ">>", "&", "/bin/ls", "arg"}
Lines == UNION {[1..n -> Words] : n \in 0..MaxTok}

id_rd_tok(tok) ==
    IF tok = NULL THEN 0 - 1
    ELSE IF tok = "<" THEN 0
    ELSE IF tok = ">" THEN 1
    ELSE IF tok = ">>" THEN 2
    ELSE 0 - 1

\* arr[k] = v on a C array kept as the sequence of its first elements
SetAt(arr, k, v) ==
    [j \in 1..(IF k + 1 > Len(arr) THEN k + 1 ELSE Len(arr)) |->
        IF j = k + 1 THEN v ELSE IF j <= Len(arr) THEN arr[j] ELSE NULL]

\* strrchr(curr_tok, '/') for a token that begins with '/'
Argv0(tok) == IF tok = "/bin/ls" THEN "/ls" ELSE tok

\* the state of parse: current token, what strtok has left, the arrays
ParseStart(line) ==
    [tok |-> NULL, rest |-> line, tokens |-> << >>, argv |-> << >>, offset |-> 0,
     redir |-> << 0, 0, 0, 0 >>, i |-> 0, ret |-> 0, err |-> ""]

strtok(st) ==
    IF st.rest = << >> THEN [st EXCEPT !.tok = NULL]
    ELSE [st EXCEPT !.tok = Head(st.rest), !.rest = Tail(st.rest)]

SyntaxError(st, msg) == [st EXCEPT !.ret = 0 - 1, !.err = msg]

\* set_tok without the test for a file already set
set_tok_nodup(st, mode, i) ==
    LET s1 == [st EXCEPT !.tokens = SetAt(st.tokens, i + st.offset, st.tok),
                         !.offset = st.offset + 1]
        s2 == strtok(s1)
    IN  IF s2.tok = NULL
        THEN SyntaxError(s2, IF mode = 0 THEN "syntax error: no input file"
                             ELSE "syntax error: no output file")
        ELSE IF id_rd_tok(s2.tok) >= 0
        THEN SyntaxError(s2, "syntax error: input file is a redirection symbol")
        ELSE LET s3 == [s2 EXCEPT !.tokens = SetAt(s2.tokens, i + s2.offset, s2.tok),
                                  !.redir[mode + 1] = i + s2.offset,
                                  !.offset = s2.offset + 1]
                 s4 == strtok(s3)
             IN  IF s4.tok = NULL /\ i = 0
                 THEN SyntaxError(s4, "error: redirects with no command")
                 ELSE [s4 EXCEPT !.ret = 0]

\* set_tok(&tok, mode, i, &offset, tokens, redir); redir[1..4] is C's redir[0..3]
set_tok(st, mode, i) ==
    LET s1 == [st EXCEPT !.tokens = SetAt(st.tokens, i + st.offset, st.tok),
                         !.offset = st.offset + 1]
        s2 == strtok(s1)
    IN  IF s2.tok = NULL
        THEN SyntaxError(s2, IF mode = 0 THEN "syntax error: no input file"
                             ELSE "syntax error: no output file")
        ELSE IF id_rd_tok(s2.tok) >= 0
        THEN SyntaxError(s2, "syntax error: input file is a redirection symbol")
        ELSE IF mode = 0 /\ s2.redir[1] # 0
        THEN SyntaxError(s2, "syntax error: multiple input files")
        ELSE IF mode # 0 /\ s2.redir[2] + s2.redir[3] # 0
        THEN SyntaxError(s2, "syntax error: multiple output files")
        ELSE LET s3 == [s2 EXCEPT !.tokens = SetAt(s2.tokens, i + s2.offset, s2.tok),
                                  !.redir[mode + 1] = i + s2.offset,
                                  !.offset = s2.offset + 1]
                 s4 == strtok(s3)
             IN  IF s4.tok = NULL /\ i = 0
                 THEN SyntaxError(s4, "error: redirects with no command")
                 ELSE [s4 EXCEPT !.ret = 0]

\* handle_redir(tok, tokens, &offset, redir, i); ret < 0 stands for (char *)1
RECURSIVE handle_redir(_, _)
handle_redir(st, i) ==
    IF id_rd_tok(st.tok) >= 0
    THEN LET s1 == set_tok(st, id_rd_tok(st.tok), i)
         IN  IF s1.ret < 0 THEN s1 ELSE handle_redir(s1, i)
    ELSE st

\* the for loop of parse from its test with the given i on
RECURSIVE ParseArgs(_, _)
ParseArgs(st, i) ==
    IF st.tok = NULL THEN [st EXCEPT !.i = i]
    ELSE LET s1 == handle_redir(strtok(st), i)
         IN  IF s1.ret < 0 THEN [s1 EXCEPT !.i = i]
             ELSE ParseArgs([s1 EXCEPT !.tokens = SetAt(s1.tokens, i + s1.offset, s1.tok),
                                       !.argv = SetAt(s1.argv, i, s1.tok)], i + 1)

\* parse, lines 230-232: "if (strncmp(argv[i - 2], "&", 2)) { redir[3] == 1; }"
\* compares redir[3] with 1 and assigns nothing
BgFlag(argv, i, redir) == redir

\* parse(buffer, tokens, argv, redir): the value returned and the arrays
parse(line) ==
    LET s0 == handle_redir(strtok(ParseStart(line)), 0)
        Failed(st) == [ret |-> 0 - 1, tokens |-> st.tokens, argv |-> st.argv,
                       redir |-> st.redir, err |-> st.err]
    IN  IF s0.ret < 0 THEN Failed(s0)
        ELSE IF s0.tok = NULL THEN Failed(s0)
        ELSE LET s1 == [s0 EXCEPT !.tokens = SetAt(s0.tokens, s0.offset, s0.tok),
                                  !.argv = SetAt(s0.argv, 0, Argv0(s0.tok))]
                 s2 == ParseArgs(s1, 1)
             IN  IF s2.ret < 0 THEN Failed(s2)
                 ELSE [ret |-> s2.i - 1, tokens |-> s2.tokens, argv |-> s2.argv,
                       redir |-> BgFlag(s2.argv, s2.i, s2.redir), err |-> ""]

\* run_prog: "find index of full file path in tokens array"
f_index(redir) ==
    LET step(f, r) == IF r = 1 \/ (f = 1 /\ r = 3) THEN f + 2 ELSE f
    IN  step(step(step(0, redir[1]), redir[2]), redir[3])

\* main: parse(buf, tokens, argv, redir)
ParseLine ==
    /\ cmd.stage = "line"
    /\ cmd' = [stage |-> "parsed", line |-> cmd.line, res |-> parse(cmd.line)]
    /\ UNCHANGED << job, child, handlers >>

\* main: parse returned a negative value: continue
ParseRejected ==
    /\ cmd.stage = "parsed"
    /\ cmd.res.ret < 0
    /\ cmd' = [cmd EXCEPT !.stage = "skipped"]
    /\ UNCHANGED << job, child, handlers >>

\* main and run_prog: no builtin is among Words, so exec_builtins returns -1 and
\* run_prog takes bg from redir[3] and the path from tokens[f_index]
RunProgStart ==
    /\ cmd.stage = "parsed"
    /\ cmd.res.ret >= 0
    /\ cmd' = [stage |-> "run", line |-> cmd.line, res |-> cmd.res,
               bg |-> cmd.res.redir[4],
               f_index |-> f_index(cmd.res.redir),
               path |-> cmd.res.tokens[f_index(cmd.res.redir) + 1]]
    /\ UNCHANGED << job, child, handlers >>

InitParse ==
    /\ Init!1 /\ Init!2 /\ Init!3 /\ Init!4 /\ Init!5 /\ Init!6 /\ Init!7 /\ Init!8
    /\ Init!9 /\ Init!10 /\ Init!11 /\ Init!12 /\ Init!13
    /\ cmd \in {[stage |-> "line", line |-> l] : l \in Lines}
    /\ child = NoChild
    /\ handlers = Ignored

NextParse == ParseLine \/ ParseRejected \/ RunProgStart

\* one command line from the read to the fork
SpecParse == InitParse /\ [][NextParse]_vars

\* ------------------------------------------------------------- exec_builtins
BuiltinNames == {"exit", "cd", "ln", "rm", "jobs", "fg", "bg"}
ArgWords == {"%1", "1", "%1x", "%x", "a"}
\* argv of the builtin command lines: the name and up to MaxArgc - 1 arguments
BuiltinLines ==
    UNION {{<< b >> \o a : b \in BuiltinNames, a \in [1..n -> ArgWords]} : n \in 0..(MaxArgc - 1)}

\* C's argv[k]: the array is zeroed by main and parse fills argv[0..argc-1]
Arg(argv, k) == IF k + 1 <= Len(argv) THEN argv[k + 1] ELSE NULL

\* "*argv[1] != '%'" is false for these
PercentArgs == {"%1", "%1x", "%x"}
\* jid_str++
AfterPercent(s) == IF s = "%1" THEN "1" ELSE IF s = "%1x" THEN "1x" ELSE "x"
\* atoi: the value of the leading digits, 0 when there are none
atoi(s) == IF s \in {"1", "1x"} THEN 1 ELSE 0

\* write(STDERR_FILENO, msg, n)
Report(msg) == out' = << Line(msg, 0, 0, 0) >>

\* a branch of exec_builtins that is over with the given calls of chdir, link
\* and unlink made: return 0, and main goes to the top of its loop
Return0(calls) ==
    /\ cmd' = [cmd EXCEPT !.stage = "done", !.calls = calls]
    /\ pc' = "reap"
    /\ op' = "builtin"
    /\ UNCHANGED << kids, tty, my_jobs, next_job, waitPid, waitKind, exit_status,
                    hist, shellCont, child, handlers >>

\* main is at the call of exec_builtins(argv, argc) with argv[0] = name
AtBuiltin(name) == pc = "read" /\ cmd.stage = "argv" /\ cmd.argv[1] = name

BuiltinExit ==
    /\ AtBuiltin("exit")
    /\ IF Len(cmd.argv) # 1
       THEN Report("exit: syntax error") /\ Return0(<< >>)
       ELSE Exit

BuiltinCd ==
    /\ AtBuiltin("cd")
    /\ IF Len(cmd.argv) # 2
       THEN Report("cd: syntax error") /\ Return0(<< >>)
       ELSE out' = << >> /\ Return0(<< [fn |-> "chdir", a |-> Arg(cmd.argv, 1), b |-> NULL] >>)

\* the test of argc has no else: link is called after the message as well
BuiltinLn ==
    /\ AtBuiltin("ln")
    /\ IF Len(cmd.argv) # 3 THEN Report("ln: syntax error") ELSE out' = << >>
    /\ Return0(<< [fn |-> "link", a |-> Arg(cmd.argv, 1), b |-> Arg(cmd.argv, 2)] >>)

BuiltinRm ==
    /\ AtBuiltin("rm")
    /\ IF Len(cmd.argv) # 2
       THEN Report("rm: syntax error") /\ Return0(<< >>)
       ELSE out' = << >> /\ Return0(<< [fn |-> "unlink", a |-> Arg(cmd.argv, 1), b |-> NULL] >>)

BuiltinJobs ==
    /\ AtBuiltin("jobs")
    /\ IF Len(cmd.argv) # 1
       THEN Report("jobs: syntax error") /\ Return0(<< >>)
       ELSE Jobs

BuiltinFg ==
    /\ AtBuiltin("fg")
    /\ IF Len(cmd.argv) # 2
       THEN Report("fg: syntax error") /\ Return0(<< >>)
       ELSE IF Arg(cmd.argv, 1) \notin PercentArgs
       THEN Report("fg: job input does not begin with %") /\ Return0(<< >>)
       ELSE Fg(atoi(AfterPercent(Arg(cmd.argv, 1))))

BuiltinBg ==
    /\ AtBuiltin("bg")
    /\ IF Len(cmd.argv) # 2
       THEN Report("bg: syntax error") /\ Return0(<< >>)
       ELSE IF Arg(cmd.argv, 1) \notin PercentArgs
       THEN Report("bg: job input does not begin with %") /\ Return0(<< >>)
       ELSE Bg(atoi(AfterPercent(Arg(cmd.argv, 1))))

exec_builtins ==
    \/ BuiltinExit
    \/ BuiltinCd
    \/ BuiltinLn
    \/ BuiltinRm
    \/ BuiltinJobs
    \/ BuiltinFg
    \/ BuiltinBg

\* The shell has read a builtin command line, with an empty registry or with
\* job 1 stopped: a background launch whose stop the drain has registered.
InitBuiltin ==
    /\ pc = "read"
    /\ tty = ShellPgid
    /\ waitPid = 0
    /\ waitKind = "none"
    /\ exit_status = 0 - 1
    /\ op = "prompt"
    /\ out = << >>
    /\ shellCont = {}
    /\ child = NoChild
    /\ handlers = Ignored
    /\ \/ /\ kids = [p \in Pids |-> Unborn]
          /\ my_jobs = init_job_list
          /\ next_job = 1
          /\ assigned = {}
          /\ shown = {}
       \/ /\ kids = [p \in Pids |-> IF p = PidOf(1)
                                     THEN [st |-> "stopped", phase |-> "prog", pend |-> NoStatus]
                                     ELSE Unborn]
          /\ my_jobs = update_job_pid(add_job(init_job_list, 1, PidOf(1), RUNNING),
                                      PidOf(1), STOPPED)
          /\ next_job = 2
          /\ assigned = {<< 1, PidOf(1) >>}
          /\ shown = {<< 1, PidOf(1) >>}
    /\ cmd \in {[stage |-> "argv", argv |-> a, calls |-> << >>] : a \in BuiltinLines}

NextBuiltin == exec_builtins

\* one builtin command line through exec_builtins
SpecBuiltin == InitBuiltin /\ [][NextBuiltin]_vars

\* ------------------------------------------------------------- the child branch
\* number of SIGTTOU
SIGTTOU == 22

\* change_def_handlers that leaves SIGTTOU alone
change_def_handlers_two(h, handler, n) ==
    [s \in Sigs |-> IF \E k \in 1..n : k < 3 /\ SigOrder[k] = s THEN handler ELSE h[s]]

\* change_def_handlers(handler) of which the first n calls of checked_signal
\* succeed; with n < 3 the next one fails
change_def_handlers(h, handler, n) ==
    [s \in Sigs |-> IF \E k \in 1..n : SigOrder[k] = s THEN handler ELSE h[s]]

\* tcsetpgrp called by a member of a process group that is not the terminal's
\* foreground group sends SIGTTOU to the caller's group unless the caller
\* ignores it; the default action of SIGTTOU stops the process
TtouStops(h, pgid, t) == h["SIGTTOU"] = SIG_DFL /\ pgid # t

\* the redirection plans parse can give run_prog (never output and append
\* together) with either value of redir[3]
Redirs ==
    {<< i, o, a, g >> : i \in {0, 1}, o \in {0, 3}, a \in {0, 3}, g \in {0, 1}}
       \ {r \in [1..4 -> 0..3] : r[2] # 0 /\ r[3] # 0}

\* the close and open calls of "set up redirection" in their order
RedirCalls(redir) ==
    (IF redir[1] # 0
     THEN << [fn |-> "close", fd |-> 0, file |-> "closed"], [fn |-> "open", fd |-> 0, file |-> "input"] >>
     ELSE << >>)
    \o (IF redir[2] # 0
        THEN << [fn |-> "close", fd |-> 1, file |-> "closed"], [fn |-> "open", fd |-> 1, file |-> "output"] >>
        ELSE IF redir[3] # 0
        THEN << [fn |-> "close", fd |-> 1, file |-> "closed"], [fn |-> "open", fd |-> 1, file |-> "append"] >>
        ELSE << >>)

\* what descriptor fd is after the first k of the calls, was being what it was
FdAfter(calls, k, fd, was) ==
    LET on == {i \in 1..k : calls[i].fd = fd}
    IN  IF on = {} THEN was
        ELSE calls[CHOOSE i \in on : \A j \in on : j <= i].file

\* the child branch with change_def_handlers(SIG_DFL) before the tcsetpgrp
ChildNext_sigfirst(step, bg) ==
    CASE step = "setpgid" -> "signal"
      [] step = "signal" -> IF bg # 0 THEN "redirect" ELSE "tcsetpgrp"
      [] step = "tcsetpgrp" -> "redirect"
      [] step = "redirect" -> "execv"
      [] step = "execv" -> "prog"

\* the statement of the child branch that follows the given one when that has
\* succeeded
ChildNext(step, bg) ==
    CASE step = "setpgid" -> IF bg # 0 THEN "signal" ELSE "tcsetpgrp"
      [] step = "tcsetpgrp" -> "signal"
      [] step = "signal" -> "redirect"
      [] step = "redirect" -> "execv"
      [] step = "execv" -> "prog"

\* a failed call after which the child goes on to the code after the branch,
\* run_prog's parent side and its return into main's loop
ChildFails_returns(c) == [c EXCEPT !.pos = "parent"]

\* perror and exit(1), in the branch itself or in a checked_ wrapper
ChildFails(c) == [c EXCEPT !.pos = "exited", !.code = 1]

Succeeds(c, step) == [c EXCEPT !.pos = ChildNext(step, c.bg), !.done = Append(@, step)]
Fails(c, step) == ChildFails([c EXCEPT !.failed = step])

\* what the shell sees of the child c
KidOf(c, k) ==
    IF c.pos = "exited" THEN Dies(k, ExitedStatus(c.code))
    ELSE IF c.pos = "prog" THEN [k EXCEPT !.phase = "prog"]
    ELSE k

\* the child is at the given statement of the branch
At(pos) == child.pos = pos /\ kids[child.pid].st = "alive"

\* a step of the child that leaves it as c and the terminal with group t
ChildStep(c, t) ==
    /\ child' = c
    /\ kids' = [kids EXCEPT ![child.pid] = KidOf(c, @)]
    /\ tty' = t
    /\ op' = "env"
    /\ out' = << >>
    /\ UNCHANGED << pc, my_jobs, next_job, waitPid, waitKind, exit_status, hist,
                    shellCont, cmd, handlers >>

\* setpgid(pid, pid)
ChildSetpgid ==
    /\ At("setpgid")
    /\ \/ ChildStep(Succeeds([child EXCEPT !.pgid = child.pid], "setpgid"), tty)
       \/ ChildStep(Fails(child, "setpgid"), tty)

\* if (!bg) checked_setpgrp(pid)
ChildTakeTerminal ==
    /\ At("tcsetpgrp")
    /\ IF TtouStops(child.handlers, child.pgid, tty)
       THEN /\ kids' = [kids EXCEPT ![child.pid].st = "stopped",
                                    ![child.pid].pend = StoppedStatus(SIGTTOU)]
            /\ op' = "env"
            /\ out' = << >>
            /\ UNCHANGED << pc, tty, my_jobs, next_job, waitPid, waitKind, exit_status,
                            hist, shellCont, aux >>
       ELSE \/ ChildStep(Succeeds(child, "tcsetpgrp"), child.pgid)
            \/ ChildStep(Fails(child, "tcsetpgrp"), tty)

\* change_def_handlers(SIG_DFL)
ChildSignals ==
    /\ At("signal")
    /\ \E n \in 0..3 :
          LET c == [child EXCEPT !.handlers = change_def_handlers(@, SIG_DFL, n)]
          IN  ChildStep(IF n = 3 THEN Succeeds(c, "signal") ELSE Fails(c, "signal"), tty)

\* "set up redirection": the first k calls succeed
ChildRedirect ==
    /\ At("redirect")
    /\ LET calls == RedirCalls(child.redir)
       IN  \E k \in 0..Len(calls) :
             LET c == [child EXCEPT !.fd0 = FdAfter(calls, k, 0, @),
                                    !.fd1 = FdAfter(calls, k, 1, @)]
             IN  ChildStep(IF k = Len(calls) THEN Succeeds(c, "redirect")
                           ELSE Fails(c, calls[k + 1].fn), tty)

\* execv(tokens[f_index], argv), or perror("execv") and exit(1)
ChildExecv ==
    /\ At("execv")
    /\ \/ ChildStep(Succeeds([child EXCEPT !.image = "program"], "execv"), tty)
       \/ ChildStep(Fails(child, "execv"), tty)

\* the executed program ends
ChildProgExit ==
    /\ At("prog")
    /\ \E code \in ExitCodes : ChildStep([child EXCEPT !.pos = "exited", !.code = code], tty)

\* top of main's loop: change_def_handlers(SIG_IGN)
ShellIgnore ==
    /\ pc = "top"
    /\ \E n \in 0..3 :
          /\ handlers' = change_def_handlers(handlers, SIG_IGN, n)
          /\ IF n = 3
             THEN pc' = "reap" /\ UNCHANGED << my_jobs, exit_status >>
             ELSE Fatal(my_jobs)
    /\ op' = "signal"
    /\ out' = << >>
    /\ UNCHANGED << kids, tty, next_job, waitPid, waitKind, hist, shellCont, cmd, child >>

\* run_prog: fork; the child has the shell's dispositions, process group and
\* descriptors; the parent goes into its wait (bg = 0) or registers the job,
\* takes the terminal for its own group and returns to main
ShellFork ==
    /\ pc = "read"
    /\ cmd.stage = "run"
    /\ LET pid == FreePid
           bg == cmd.redir[4]
       IN  /\ child' = [pos |-> "setpgid", pid |-> pid, bg |-> bg, redir |-> cmd.redir,
                        handlers |-> handlers, pgid |-> ShellPgid, fd0 |-> "tty",
                        fd1 |-> "tty", image |-> "shell", done |-> << >>,
                        failed |-> "", code |-> 0]
           /\ kids' = [kids EXCEPT ![pid] = [st |-> "alive", phase |-> FirstPhase(bg), pend |-> NoStatus]]
           /\ IF bg # 0
              THEN /\ my_jobs' = RunProgBg(my_jobs, next_job, pid).jobs
                   /\ next_job' = RunProgBg(my_jobs, next_job, pid).next
                   /\ out' = RunProgBg(my_jobs, next_job, pid).out
                   /\ assigned' = assigned \cup {<< next_job, pid >>}
                   /\ shown' = shown \cup Pairs(out')
                   /\ IF TtouStops(handlers, ShellPgid, tty)
                      THEN pc' = "stopped" /\ UNCHANGED tty
                      ELSE pc' = "top" /\ tty' = ShellPgid
                   /\ UNCHANGED << waitPid, waitKind >>
              ELSE /\ pc' = "wait"
                   /\ waitPid' = pid
                   /\ waitKind' = "run"
                   /\ out' = << >>
                   /\ UNCHANGED << my_jobs, next_job, tty, hist >>
    /\ cmd' = [cmd EXCEPT !.stage = "launched"]
    /\ op' = "run_prog"
    /\ UNCHANGED << exit_status, shellCont, handlers >>

\* run_prog: checked_waitpid(pid, &status, WUNTRACED) returns, handle_signals,
\* checked_setpgrp(getpgrp()), return to main
ShellWaitReturn ==
    /\ pc = "wait"
    /\ WaitReady(kids[waitPid].pend)
    /\ LET h == handle_signals(my_jobs, next_job, kids[waitPid].pend, waitPid)
       IN  /\ my_jobs' = h.jobs
           /\ next_job' = h.next
           /\ out' = h.out
           /\ assigned' = IF h.next # next_job
                          THEN assigned \cup {<< next_job, waitPid >>}
                          ELSE assigned
    /\ kids' = [kids EXCEPT ![waitPid] = Collected(@)]
    /\ shown' = shown \cup Pairs(out')
    /\ op' = "handle_signals"
    /\ IF TtouStops(handlers, ShellPgid, tty)
       THEN pc' = "stopped" /\ UNCHANGED tty
       ELSE pc' = "top" /\ tty' = ShellPgid
    /\ waitPid' = 0
    /\ waitKind' = "none"
    /\ UNCHANGED << exit_status, shellCont, aux >>

\* main has just been entered with the dispositions its parent left it; the
\* command it will read is a program with the given plan
InitChild ==
    /\ pc = "top"
    /\ Init!2 /\ Init!3 /\ Init!4 /\ Init!5 /\ Init!6 /\ Init!7 /\ Init!8
    /\ Init!9 /\ Init!10 /\ Init!11 /\ Init!12 /\ Init!13
    /\ cmd \in {[stage |-> "run", redir |-> r] : r \in Redirs}
    /\ child = NoChild
    /\ handlers \in [Sigs -> {SIG_DFL, SIG_IGN}]

NextChild ==
    \/ ShellIgnore
    \/ \E p \in Pids : ReapOne(p)
    \/ ReapDone
    \/ ShellFork
    \/ ShellWaitReturn
    \/ ChildSetpgid
    \/ ChildTakeTerminal
    \/ ChildSignals
    \/ ChildRedirect
    \/ ChildExecv
    \/ ChildProgExit

\* one program from main's entry through fork, child setup and exec
SpecChild == InitChild /\ [][NextChild]_vars

\* ------------------------------------------------------------- properties
Registered(list, pid) == \E i \in 1..Len(list) : list[i].pid = pid

\* C1: the registry holds at most one entry per process-group id, whatever
\* launches, stops, continuations, terminations, drains and fg/bg commands
\* have happened.
C1_OneEntryPerPgid ==
    \A i, j \in 1..Len(my_jobs) : my_jobs[i].pid = my_jobs[j].pid => i = j

\* C2: once the shell has collected the termination of a job (in the drain or
\* in the blocking wait of fg), the registry has no entry for that process
\* group: every registered job is a child whose termination is uncollected.
C2_ListedJobsUncollected ==
    \A i \in 1..Len(my_jobs) : kids[my_jobs[i].pid].st # "reaped"

\* C3: whenever the shell is about to read the next command line, the
\* foreground process group of the terminal is the shell's own.
C3_TerminalIsShellsAtRead ==
    pc = "read" => tty = ShellPgid

\* C4: fg %N on a registered job sends SIGCONT, marks the job Running and gives
\* the terminal to the job's process group, so that the terminal belongs to
\* that group, not to the shell, all the time the shell is blocked in fg's wait.
C4_FgGivesTerminalToJob ==
    /\ [][\A jid \in JidArgs :
            (Fg(jid) /\ get_job_pid(my_jobs, jid) >= 0 /\ pc' = "wait") =>
                LET pid == get_job_pid(my_jobs, jid)
                IN  /\ kids'[pid].st # "stopped"
                    /\ my_jobs'[FirstOfPid(my_jobs', pid)].state = RUNNING
                    /\ tty' = pid]_vars
    /\ []((pc = "wait" /\ waitKind = "fg") => (tty = waitPid /\ tty # ShellPgid))


\* the step forks a child for run_prog with bg = 0 / bg # 0
IsFgLaunch(p) == kids[p].st = "unborn" /\ kids'[p].phase = "setup_fg"
IsBgLaunch(p) == kids[p].st = "unborn" /\ kids'[p].phase = "setup_bg"

\* the step is the shell collecting the pending status of p in the drain
IsReapOf(p) ==
    /\ pc = "reap" /\ pc' = "reap"
    /\ Born(p)
    /\ kids[p].pend # NoStatus /\ kids'[p].pend = NoStatus

\* the wait status reports a termination or a stop
ReportsEnd(status) ==
    status # NoStatus /\ (WIFEXITED(status) \/ WIFSIGNALED(status) \/ WIFSTOPPED(status))

\* C5: from the launch of a foreground job (or its resumption with fg) until
\* the kernel has a termination or stop of that job to report, the shell does
\* nothing: no output, no drain, no change of the registry or the counter;
\* and once there is such a report nothing keeps the wait from returning.
C5_ForegroundWaitBlocks ==
    /\ [][/\ \A p \in Pids : IsFgLaunch(p) => (pc' = "wait" /\ waitPid' = p)
          /\ \A jid \in JidArgs :
                (Fg(jid) /\ get_job_pid(my_jobs, jid) >= 0 /\ pc' # "exited")
                    => (pc' = "wait" /\ waitPid' = get_job_pid(my_jobs, jid))
          /\ pc = "wait" =>
                \/ /\ pc' = "wait"
                   /\ UNCHANGED << my_jobs, next_job, waitPid, waitKind, exit_status >>
                   /\ out' = << >>
                   /\ \A p \in Pids : kids[p].pend # NoStatus => kids'[p].pend # NoStatus
                \/ /\ ReportsEnd(kids[waitPid].pend)
                   /\ pc' = "reap"
                   /\ \A p \in Pids \ {waitPid} : kids'[p] = kids[p]]_vars
    /\ []((pc = "wait" /\ ReportsEnd(kids[waitPid].pend)) => ENABLED WaitReturn)

C5_Witness ==
    /\ pc = "wait"
    /\ kids[waitPid].st = "alive"
    /\ \E q \in Pids \ {waitPid} : Registered(my_jobs, q) /\ kids[q].pend # NoStatus

\* C6: a background launch registers the new process group as Running under
\* the current counter value, increments the counter, prints the launch line
\* with that id and returns to the REPL without waiting; and the terminal is
\* only ever given to a child's group by the setup of a foreground child.
C6_BackgroundLaunch ==
    [][/\ \A p \in Pids : IsBgLaunch(p) =>
             /\ my_jobs' = Append(my_jobs, Job(next_job, p, RUNNING))
             /\ next_job' = next_job + 1
             /\ out' = << Line("launch", next_job, p, 0) >>
             /\ pc' = "reap"
             /\ tty' = ShellPgid
       /\ \A p \in Pids : (tty' = p /\ tty # p) => kids[p].phase = "setup_fg"]_vars

C6_Witness ==
    \E p \in Pids :
        /\ kids[p].phase = "setup_bg"
        /\ \E i \in 1..Len(my_jobs) : my_jobs[i].pid = p /\ my_jobs[i].state = RUNNING
        /\ op = "run_prog"
        /\ out = << Line("launch", next_job - 1, p, 0) >>
        /\ tty = ShellPgid
        /\ pc = "reap"

\* C7: the job id shown in a launch line is greater than every id handed out
\* before it, the ids of all earlier launch lines among them, and is one more
\* than the number of ids handed out before it (so 1, 2, 3, ... when only
\* background launches register jobs); no two registered jobs share an id.
C7_LaunchIdsIncrease ==
    /\ [](\A i, j \in 1..Len(my_jobs) : my_jobs[i].jid = my_jobs[j].jid => i = j)
    /\ [][\A p \in Pids : IsBgLaunch(p) =>
             /\ Len(out') = 1
             /\ out'[1].kind = "launch"
             /\ out'[1].pid = p
             /\ \A a \in assigned : out'[1].jid > a[1]
             /\ out'[1].jid = Cardinality(assigned) + 1]_vars

C7_Witness ==
    /\ Len(out) = 1 /\ out[1].kind = "launch" /\ out[1].jid = 2
    /\ << 1, PidOf(1) >> \in assigned
    /\ Len(my_jobs) = 1

\* C8 (as stated): a job id that has appeared in a line for one process group,
\* the "terminated by signal" line of an unregistered foreground job included,
\* is never assigned to or shown for another process group.
C8_JobIdNeverReused ==
    \A a, b \in shown \cup assigned : a[1] = b[1] => a[2] = b[2]

\* C8 (amended): a job id under which a process group has been registered is
\* never later assigned to or shown for another process group.
C8_AssignedIdNotReused ==
    [][\A a \in assigned : \A b \in (assigned' \ assigned) \cup Pairs(out') :
          b[1] = a[1] => b[2] = a[2]]_vars

C8_Witness ==
    /\ \E a \in assigned : \E b \in Pairs(out) : b[2] # a[2] /\ b \notin assigned
    /\ Len(out) = 1 /\ out[1].kind = "terminated by signal"

\* C9 (as stated): the drain that collects the normal exit of a registered
\* (background) job removes it from the registry and prints no line.
C9_ExitedJobSilent ==
    [][\A p \in Pids :
          (IsReapOf(p) /\ WIFEXITED(kids[p].pend) /\ Registered(my_jobs, p)) =>
              /\ ~Registered(my_jobs', p)
              /\ out' = << >>]_vars

\* the registry without its k-th entry
Without(list, k) == [i \in 1..(Len(list) - 1) |-> IF i < k THEN list[i] ELSE list[i + 1]]

\* C9 (amended): the drain that collects the normal exit of a registered job
\* removes the job's entry and prints "[jid] (pgid) terminated with exit status
\* <code>" with the id of that entry; collecting its termination by a signal
\* removes the entry and prints "[jid] (pgid) terminated by signal <n>".
C9_ExitedJobReported ==
    [][\A p \in Pids :
          (IsReapOf(p) /\ Registered(my_jobs, p)) =>
              LET status == kids[p].pend
                  k == CHOOSE i \in 1..Len(my_jobs) :
                          my_jobs[i].pid = p /\ \A j \in 1..(i - 1) : my_jobs[j].pid # p
              IN  /\ (~WIFSIGNALED(status) /\ WIFEXITED(status)) =>
                        /\ my_jobs' = Without(my_jobs, k)
                        /\ out' = << Line("terminated with exit status", my_jobs[k].jid,
                                          p, WEXITSTATUS(status)) >>
                  /\ WIFSIGNALED(status) =>
                        /\ my_jobs' = Without(my_jobs, k)
                        /\ out' = << Line("terminated by signal", my_jobs[k].jid,
                                          p, WTERMSIG(status)) >>]_vars

C9_Witness ==
    /\ pc = "reap"
    /\ op = "reap"
    /\ Len(out) = 1
    /\ out[1].kind = "terminated with exit status"
    /\ << out[1].jid, out[1].pid >> \in assigned
    /\ out[1].n = 0
    /\ ~Registered(my_jobs, out[1].pid)

\* C10: while the shell runs, a registry entry in state Stopped stays in the
\* registry, unchanged, across every step except fg or bg resuming its process
\* group and the drain collecting a continuation or a termination of it.
C10_StoppedStaysStopped ==
    [][\A i \in 1..Len(my_jobs) :
          my_jobs[i].state = STOPPED =>
              \/ \E j \in 1..Len(my_jobs') : my_jobs'[j] = my_jobs[i]
              \/ \E jid \in JidArgs :
                    /\ Fg(jid) \/ Bg(jid)
                    /\ get_job_pid(my_jobs, jid) = my_jobs[i].pid
              \/ /\ IsReapOf(my_jobs[i].pid)
                 /\ LET status == kids[my_jobs[i].pid].pend
                    IN  WIFCONTINUED(status) \/ WIFSIGNALED(status) \/ WIFEXITED(status)
              \/ pc' = "exited"]_vars

C10_Witness ==
    /\ pc = "reap"
    /\ op = "reap"
    /\ Len(out) = 1
    /\ out[1].kind = "suspended by signal"
    /\ \E i \in 1..Len(my_jobs) :
          /\ my_jobs[i] = Job(out[1].jid, out[1].pid, STOPPED)
          /\ kids[my_jobs[i].pid].st = "stopped"
          /\ kids[my_jobs[i].pid].pend = NoStatus

\* the lines that report a status change of a job
NotifKinds == {"terminated by signal", "terminated with exit status",
               "suspended by signal", "resumed"}

\* the line that reports the wait status
StatusKind(status) ==
    IF WIFSIGNALED(status) THEN "terminated by signal"
    ELSE IF WIFSTOPPED(status) THEN "suspended by signal"
    ELSE IF WIFCONTINUED(status) THEN "resumed"
    ELSE "terminated with exit status"

\* the step is the shell taking the pending status of p from the kernel
IsCollectOf(p) == Born(p) /\ kids[p].pend # NoStatus /\ kids'[p].pend = NoStatus

\* C11 (as stated): every status change of a registered job that the shell
\* collects, in the drain or in a blocking wait, produces exactly one
\* notification line for that job.
C11_EveryStatusOneLine ==
    [][\A p \in Pids :
          (IsCollectOf(p) /\ Registered(my_jobs, p)) =>
              /\ Len(out') = 1
              /\ out'[1].pid = p
              /\ out'[1].kind \in NotifKinds]_vars

\* C11 (amended): every status the drain collects for a registered job produces
\* exactly one notification line, of the kind of that status and with the id of
\* the job's entry; a status collected by the blocking wait of run_prog or fg
\* produces one line when it is a stop or a termination by signal and none when
\* it is a normal exit; and every notification line is written by the step that
\* takes the reported status from the kernel, so no status is reported twice.
C11_CollectedStatusReportedOnce ==
    [][/\ \A p \in Pids :
             (IsReapOf(p) /\ Registered(my_jobs, p)) =>
                 /\ Len(out') = 1
                 /\ out'[1].kind = StatusKind(kids[p].pend)
                 /\ out'[1].pid = p
                 /\ out'[1].jid = my_jobs[FirstOfPid(my_jobs, p)].jid
       /\ (pc = "wait" /\ pc' = "reap") =>
             /\ IsCollectOf(waitPid)
             /\ IF WIFEXITED(kids[waitPid].pend)
                THEN out' = << >>
                ELSE /\ Len(out') = 1
                     /\ out'[1].kind = StatusKind(kids[waitPid].pend)
                     /\ out'[1].pid = waitPid
       /\ \A i \in 1..Len(out') :
             out'[i].kind \in NotifKinds =>
                 /\ Len(out') = 1
                 /\ IsCollectOf(out'[i].pid)
                 /\ out'[i].kind = StatusKind(kids[out'[i].pid].pend)]_vars

C11_Witness ==
    /\ op = "reap"
    /\ Len(out) = 1
    /\ out[1].kind = "suspended by signal"
    /\ \E a, b \in shown : a[2] = out[1].pid /\ b = << out[1].jid, out[1].pid >> /\ a # b

\* C12: the shell comes to its read only out of the drain, and every command
\* leads back to the drain before the next read; the drain can always take a
\* step (it never blocks); each status it collects leaves one pending status
\* less and is applied to the entry of its process group; the prompt is written
\* only when no status is pending; and the drain ends unless children keep
\* changing state for ever.
C12_DrainBeforePrompt ==
    /\ [][/\ (pc # "read" /\ pc' = "read") => (pc = "reap" /\ Pending(kids) = {})
          /\ (pc = "read" /\ op' # "env") => pc' # "read"
          /\ \A p \in Pids : IsReapOf(p) =>
                /\ Pending(kids') = Pending(kids) \ {p}
                /\ Registered(my_jobs, p) =>
                      LET k == FirstOfPid(my_jobs, p)
                          status == kids[p].pend
                      IN  IF WIFSTOPPED(status) THEN my_jobs' = [my_jobs EXCEPT ![k].state = STOPPED]
                          ELSE IF WIFCONTINUED(status) THEN my_jobs' = [my_jobs EXCEPT ![k].state = RUNNING]
                          ELSE my_jobs' = Without(my_jobs, k)]_vars
    /\ [](pc = "reap" => ENABLED Drain)
    /\ [](op = "prompt" => (pc = "read" /\ Pending(kids) = {}))
    /\ ([]<><<op' = "env">>_vars \/ (pc = "reap" ~> pc = "read"))

C12_Witness ==
    /\ op = "prompt"
    /\ Len(my_jobs) = 1
    /\ my_jobs[1].state = STOPPED
    /\ kids[my_jobs[1].pid].phase = "setup_bg"
    /\ kids[my_jobs[1].pid].st = "stopped"
    /\ \E q \in Pids : kids[q].st = "reaped"

\* C13: a drain run right after a drain that has consumed every pending status,
\* with no child changing state in between, calls reap for nobody: it leaves
\* the registry as it is and prints nothing; and no step of a drain changes the
\* job-id counter.
C13_SecondDrainIdle ==
    /\ [](pc = "reap" =>
            \A o \in Orders(Pending(kids)) :
                LET d == DrainIn(o, my_jobs, kids)
                IN  \A o2 \in Orders(Pending(d.kids)) :
                        DrainIn(o2, d.jobs, d.kids) = [jobs |-> d.jobs, kids |-> d.kids, out |-> << >>])
    /\ [][(pc = "reap" /\ op' # "env") => next_job' = next_job]_vars

C13_Witness ==
    /\ pc = "reap"
    /\ Cardinality(Pending(kids)) = 2
    /\ \A p \in Pending(kids) : Registered(my_jobs, p)
    /\ \E o \in Orders(Pending(kids)) : Len(DrainIn(o, my_jobs, kids).out) = 2

\* C14: fg %K and bg %K with K the job id of no registered job print "job not
\* found", send no signal (no child changes), do not wait (the shell goes back
\* to the top of its loop) and leave the registry, the counter and the terminal
\* as they are.
C14_UnknownJobNotFound ==
    [][\A K \in JidArgs :
          ((Fg(K) \/ Bg(K)) /\ \A i \in 1..Len(my_jobs) : my_jobs[i].jid # K) =>
              /\ out' = << Line("job not found", K, 0, 0) >>
              /\ pc' = "reap"
              /\ UNCHANGED << kids, my_jobs, next_job, tty, waitPid, waitKind, exit_status >>]_vars

C14_Witness ==
    /\ op \in {"fg", "bg"}
    /\ out = << Line("job not found", 2, 0, 0) >>
    /\ Len(my_jobs) = 1
    /\ my_jobs[1].jid = 1
    /\ my_jobs[1].state = STOPPED
    /\ kids[my_jobs[1].pid].st = "stopped"

\* C15: bg %N on a registered job in state Stopped sends SIGCONT (the job's
\* process is not stopped afterwards), marks the entry Running, prints nothing,
\* goes back to the top of the loop without waiting and leaves the terminal
\* alone; and the drain that collects a continuation caused by fg or bg prints
\* no "resumed" line.
C15_BgResumesSilently ==
    [][/\ \A K \in JidArgs :
             (Bg(K) /\ FirstOfJid(my_jobs, K) # 0 /\ my_jobs[FirstOfJid(my_jobs, K)].state = STOPPED) =>
                 LET k == FirstOfJid(my_jobs, K)
                 IN  /\ kids'[my_jobs[k].pid].st # "stopped"
                     /\ my_jobs'[k].state = RUNNING
                     /\ out' = << >>
                     /\ pc' = "reap"
                     /\ tty' = tty
       /\ \A p \in Pids :
             (IsReapOf(p) /\ p \in shellCont) =>
                 \A i \in 1..Len(out') : out'[i].kind # "resumed"]_vars

\* C16: when the drain collects a Stopped status of a process group that is not
\* in the registry, it appends an entry for it in state Stopped under the
\* current counter value, increments the counter and prints the suspend line
\* with that id; when the group is registered it sets the state of its entry to
\* Stopped, leaves the counter alone and prints the line with the entry's id.
C16_ReaperRegistersStopped ==
    [][\A p \in Pids :
          (IsReapOf(p) /\ WIFSTOPPED(kids[p].pend)) =>
              LET sig == WSTOPSIG(kids[p].pend)
                  k == FirstOfPid(my_jobs, p)
              IN  IF k = 0
                  THEN /\ my_jobs' = Append(my_jobs, Job(next_job, p, STOPPED))
                       /\ next_job' = next_job + 1
                       /\ out' = << Line("suspended by signal", next_job, p, sig) >>
                  ELSE /\ my_jobs' = [my_jobs EXCEPT ![k].state = STOPPED]
                       /\ next_job' = next_job
                       /\ out' = << Line("suspended by signal", my_jobs[k].jid, p, sig) >>]_vars

\* C17: when the drain collects an Exited or Signaled status of a process group
\* that is not in the registry, it prints nothing and leaves the registry as it
\* is.
C17_ReaperSilentOnUnregistered ==
    [][\A p \in Pids :
          (/\ IsReapOf(p)
           /\ WIFEXITED(kids[p].pend) \/ WIFSIGNALED(kids[p].pend)
           /\ ~Registered(my_jobs, p)) =>
              /\ out' = << >>
              /\ my_jobs' = my_jobs]_vars

\* the step is the return of run_prog's blocking wait for a foreground launch
IsRunWaitReturn == pc = "wait" /\ waitKind = "run" /\ pc' = "reap"

\* C18: when the wait of a foreground launch returns because the job stopped,
\* the shell appends an entry for it in state Stopped under the current counter
\* value, increments the counter, prints "[id] (pgid) suspended by signal n"
\* with that id and takes the terminal back, all before the next drain.
C18_StoppedForegroundRegistered ==
    [][(IsRunWaitReturn /\ WIFSTOPPED(kids[waitPid].pend)) =>
          /\ ~Registered(my_jobs, waitPid)
          /\ my_jobs' = Append(my_jobs, Job(next_job, waitPid, STOPPED))
          /\ next_job' = next_job + 1
          /\ out' = << Line("suspended by signal", next_job, waitPid,
                            WSTOPSIG(kids[waitPid].pend)) >>
          /\ tty' = ShellPgid]_vars

C18_Witness ==
    /\ op = "handle_signals"
    /\ Len(my_jobs) = 2
    /\ my_jobs[1].pid # my_jobs[2].pid
    /\ my_jobs[2].state = STOPPED
    /\ out = << Line("suspended by signal", 2, my_jobs[2].pid, 20) >>
    /\ my_jobs[2].jid = 2
    /\ next_job = 3
    /\ kids[my_jobs[2].pid].st = "stopped"

\* C19: when the wait of a foreground launch returns because the job ended, no
\* entry is added, the counter keeps its value and the process group has never
\* been given a job id; a normal exit prints nothing and a termination by
\* signal prints one "terminated by signal" line.
C19_EndedForegroundNotRegistered ==
    [][(IsRunWaitReturn /\ ~WIFSTOPPED(kids[waitPid].pend)) =>
          LET status == kids[waitPid].pend
          IN  /\ my_jobs' = my_jobs
              /\ next_job' = next_job
              /\ \A a \in assigned' : a[2] # waitPid
              /\ kids'[waitPid].st = "reaped"
              /\ IF WIFEXITED(status)
                 THEN out' = << >>
                 ELSE /\ WIFSIGNALED(status)
                      /\ Len(out') = 1
                      /\ out'[1].kind = "terminated by signal"
                      /\ out'[1].pid = waitPid
                      /\ out'[1].n = WTERMSIG(status)]_vars

C19_Witness ==
    /\ op = "handle_signals"
    /\ Len(out) = 1
    /\ out[1].kind = "terminated by signal"
    /\ out[1].n = 2
    /\ kids[out[1].pid].st = "reaped"
    /\ \A a \in assigned : a[2] # out[1].pid
    /\ Len(my_jobs) = 1
    /\ next_job = 2

\* C20: whenever the shell process ends, by the exit builtin or end of input, by
\* a failed read, or by a failed write, signal, tcsetpgrp, getpgrp or waitpid,
\* the registry has been cleared; the exit status is 0 for the exit builtin and
\* end of input and 1 for every failure; and the shell has no exit status while
\* it runs.
C20_RegistryClearedOnExit ==
    /\ [][(pc # "exited" /\ pc' = "exited") =>
             /\ my_jobs' = << >>
             /\ exit_status' = IF Exit THEN 0 ELSE 1]_vars
    /\ [](pc = "exited" => (my_jobs = << >> /\ exit_status \in {0, 1}))
    /\ [](pc # "exited" => exit_status = 0 - 1)

C20_Witness ==
    /\ pc = "exited"
    /\ exit_status = 1
    /\ op = "handle_signals"
    /\ my_jobs = << >>
    /\ Cardinality(assigned) = 2
    /\ \A a \in assigned : kids[a[2]].st \in {"alive", "stopped"}


\* C27: every notification line written for a process group that is in the
\* registry when the line is written, by the drain or by handle_signals after a
\* blocking wait, shows the job id of that group's entry.
C27_LineShowsRegisteredId ==
    [][\A i \in 1..Len(out') :
          (out'[i].kind \in NotifKinds /\ Registered(my_jobs, out'[i].pid)) =>
              out'[i].jid = my_jobs[FirstOfPid(my_jobs, out'[i].pid)].jid]_vars

\* the step is the return of the blocking wait of the fg builtin
IsFgWaitReturn == pc = "wait" /\ waitKind = "fg" /\ pc' = "reap"

\* C28: when the wait of fg %N returns because the job stopped again, the
\* counter keeps its value and the registry has the same entries as before the
\* return, the job's one entry being in state Stopped.
C28_FgStoppedAgainMarkedStopped ==
    [][(IsFgWaitReturn /\ WIFSTOPPED(kids[waitPid].pend)) =>
          /\ next_job' = next_job
          /\ Len(my_jobs') = Len(my_jobs)
          /\ \A i \in 1..Len(my_jobs') :
                my_jobs'[i].pid = waitPid => my_jobs'[i].state = STOPPED
          /\ Cardinality({i \in 1..Len(my_jobs') : my_jobs'[i].pid = waitPid}) = 1]_vars

\* C29: the shell ends only by the exit builtin or end of input: the wait of fg
\* is only called for a child whose termination has not been collected, so no
\* run of commands and child events ends the shell with status 1.
C29_ShellEndsOnlyOnExit ==
    /\ [][(pc # "exited" /\ pc' = "exited") => (Exit /\ exit_status' = 0)]_vars
    /\ [][\A jid \in JidArgs :
             (Fg(jid) /\ get_job_pid(my_jobs, jid) >= 0) =>
                 kids[get_job_pid(my_jobs, jid)].st \in {"alive", "stopped", "zombie"}]_vars

\* C21: a line whose last token is "&" is parsed with the background flag
\* redir[3] set to 1 and its program is launched in the background; any other
\* line is parsed with the flag 0 and launched in the foreground.
C21_AmpersandSetsBackground ==
    cmd.stage = "run" =>
        LET amp == IF cmd.line[Len(cmd.line)] = "&" THEN 1 ELSE 0
        IN  cmd.res.redir[4] = amp /\ cmd.bg = amp

RedirOps == {"<", ">", ">>"}
Count(line, S) == Cardinality({k \in 1..Len(line) : line[k] \in S})
\* the tokens that are neither a redirection operator nor the file of one
CommandTokens(line) ==
    {k \in 1..Len(line) : line[k] \notin RedirOps /\ (k = 1 \/ line[k - 1] \notin RedirOps)}
\* a line the redirection rules forbid
BadLine(line) ==
    \/ Count(line, {"<"}) >= 2
    \/ Count(line, {">", ">>"}) >= 2
    \/ \E k \in 1..Len(line) : line[k] \in RedirOps /\ k = Len(line)
    \/ \E k \in 1..(Len(line) - 1) : line[k] \in RedirOps /\ line[k + 1] \in RedirOps
    \/ CommandTokens(line) = {}

\* C24: parse either returns -1, and then nothing is run, or gives a plan with
\* at most one input file and at most one of output and append file, each the
\* token that follows its operator; a line with a second "<", a second ">" or
\* ">>", an operator without a file, an operator as file name or no command is
\* rejected.
C24_ParseRejectsOrSinglePlan ==
    cmd.stage \in {"parsed", "skipped", "run"} =>
        LET r == cmd.res
            l == cmd.line
        IN  /\ r.ret < 0 => (r.ret = 0 - 1 /\ cmd.stage # "run")
            /\ BadLine(l) => r.ret < 0
            /\ r.ret >= 0 =>
                  /\ Count(l, {"<"}) <= 1
                  /\ Count(l, {">", ">>"}) <= 1
                  /\ ~(r.redir[2] # 0 /\ r.redir[3] # 0)
                  /\ \A m \in 1..3 :
                        IF Count(l, {<< "<", ">", ">>" >>[m]}) = 0 THEN r.redir[m] = 0
                        ELSE /\ r.redir[m] > 0
                             /\ l[r.redir[m]] = << "<", ">", ">>" >>[m]
                             /\ r.tokens[r.redir[m] + 1] = l[r.redir[m] + 1]

C24_Witness ==
    /\ cmd.stage = "skipped"
    /\ cmd.line = << "/bin/ls", ">", "arg", ">>", "arg" >>
    /\ cmd.res.err = "syntax error: multiple output files"

\* C26: for every line that parses, f_index is the index in tokens of the
\* command, the first token that is neither a redirection operator nor the
\* file of one, and that token is the path handed to the launch.
C26_FIndexIsCommand ==
    cmd.stage = "run" =>
        \E k \in CommandTokens(cmd.line) :
            /\ \A j \in CommandTokens(cmd.line) : k <= j
            /\ cmd.f_index = k - 1
            /\ cmd.path = cmd.line[k]

\* what the claim calls a user syntax error of a builtin: a wrong number of
\* arguments, a job reference without "%", a job id that is no decimal number
SyntaxRejected(argv) ==
    \/ argv[1] \in {"exit", "jobs"} /\ Len(argv) # 1
    \/ argv[1] \in {"cd", "rm", "fg", "bg"} /\ Len(argv) # 2
    \/ argv[1] = "ln" /\ Len(argv) # 3
    \/ argv[1] \in {"fg", "bg"} /\ Len(argv) = 2 /\ argv[2] # "%1"

\* C22: a builtin line that is a user syntax error gets a message and nothing
\* else: no chdir, link or unlink, no signal to a child, no wait, registry,
\* counter and terminal as before, and the shell goes on to its next command.
C22_SyntaxErrorNoSideEffect ==
    [][(pc = "read" /\ cmd.stage = "argv" /\ SyntaxRejected(cmd.argv)) =>
          /\ out' # << >>
          /\ cmd'.stage = "done" => cmd'.calls = << >>
          /\ pc' = "reap"
          /\ UNCHANGED << kids, my_jobs, next_job, tty, waitPid, waitKind, exit_status >>]_vars

\* the statements of run_prog's child branch, and the two ways out of it
ChildPositions == {"setpgid", "tcsetpgrp", "signal", "redirect", "execv", "prog", "exited"}

\* the descriptors the plan asks for
PlannedFd0(redir) == IF redir[1] # 0 THEN "input" ELSE "tty"
PlannedFd1(redir) == IF redir[2] # 0 THEN "output" ELSE IF redir[3] # 0 THEN "append" ELSE "tty"

\* C23: a forked child in which a setup call or the exec has failed has ended
\* with a nonzero status without the program; the program only runs with the
\* whole setup applied; and the child is never anywhere but in the child
\* branch, so the shell alone goes on with the loop.
C23_ChildFailureEndsChild ==
    child.pos # "none" =>
        /\ child.pos \in ChildPositions
        /\ child.failed # "" =>
              /\ child.pos = "exited"
              /\ child.code # 0
              /\ child.image # "program"
              /\ kids[child.pid].st \in {"zombie", "reaped"}
        /\ child.image = "program" =>
              /\ child.pgid = child.pid
              /\ child.bg = 0 => \E k \in 1..Len(child.done) : child.done[k] = "tcsetpgrp"
              /\ \A sig \in Sigs : child.handlers[sig] = SIG_DFL
              /\ child.fd0 = PlannedFd0(child.redir)
              /\ child.fd1 = PlannedFd1(child.redir)

C23_Witness ==
    /\ child.pos = "exited"
    /\ child.failed = "open"
    /\ child.fd0 = "closed"
    /\ pc = "wait"

\* C25: whenever the shell reads a command or waits for a job, SIGINT, SIGTSTP
\* and SIGTTOU are ignored in the shell; a child that runs its program has all
\* three at their default.
C25_SignalsIgnoredAndRestored ==
    /\ pc \in {"read", "wait"} => \A sig \in Sigs : handlers[sig] = SIG_IGN
    /\ (child.pos # "none" /\ child.image = "program") =>
          \A sig \in Sigs : child.handlers[sig] = SIG_DFL

C25_Witness ==
    /\ pc = "wait"
    /\ child.pos = "prog"
    /\ child.image = "program"

\* the order of the setup for a child launched with the given bg
SetupOrder(bg) ==
    IF bg # 0 THEN << "setpgid", "signal", "redirect", "execv" >>
    ELSE << "setpgid", "tcsetpgrp", "signal", "redirect", "execv" >>

\* C30: the child does its setup in the order setpgid, tcsetpgrp (foreground
\* only), default dispositions, redirections, exec; it calls tcsetpgrp with
\* SIGTTOU still ignored and is never stopped before its program runs.
C30_ChildSetupOrder ==
    child.pos # "none" =>
        /\ Len(child.done) <= Len(SetupOrder(child.bg))
        /\ child.done = SubSeq(SetupOrder(child.bg), 1, Len(child.done))
        /\ child.pos = "tcsetpgrp" => child.handlers["SIGTTOU"] = SIG_IGN
        /\ child.image # "program" => kids[child.pid].st # "stopped"

C30_Witness ==
    /\ child.pos = "prog"
    /\ child.bg = 0
    /\ child.done = SetupOrder(0)
    /\ tty = child.pid

====
